---- MODULE Spec2Model ----
(***************************************************************************)
(* Model of src/common.py: the Teacher entity of the employees module.     *)
(*                                                                         *)
(* Three specifications share the variables:                               *)
(*   SpecOnboarding  Teacher.create and the changes of a teacher's         *)
(*                   additional_languages;                                 *)
(*   SpecBlocking    Teacher.block on an onboarded teacher, new free-time  *)
(*                   rows, and further calls of Teacher.create;            *)
(*   SpecMetrics     the derived metrics of an onboarded teacher:          *)
(*                   finished_demo_lessons, paid_after_demo, conversion    *)
(*                   and the two cache entries behind them.                *)
(*                                                                         *)
(* The database runs in autocommit mode, as the module opens no            *)
(* transaction: each statement's write is stored when it returns.          *)
(***************************************************************************)
EXTENDS Integers, Sequences, FiniteSets, TLC

\* ------------------------------------------------------------------------
\* Bounds of the model
\* ------------------------------------------------------------------------
MaxSlots == 2
MaxBlockCalls == 2
MaxAddl == 2
MaxNewRows == 2

\* ------------------------------------------------------------------------
\* Program constants and fixed tables
\* ------------------------------------------------------------------------
DEMOS_MIN == 10

Users == {"u1"}

\* Language rows: pk -> code, and pk -> the name in the genitive case
\* (Language.in_case('gent'), transliterated).
LanguageCode == <<"en", "de", "fr">>
LanguageGent == <<"angliyskogo", "nemetskogo", "frantsuzskogo">>
Langs == DOMAIN LanguageCode

\* Receivers connected to the teacher_blocked signal, in connection order.
Receivers == <<"r1", "r2">>

\* Values make_password(None) can store: the prefix "!" and a random suffix.
UnusableSuffixes == {"x", "y"}
InitialPassword == <<"pbkdf2_sha256", "hash">>

Todays == { [year |-> 2017, month |-> 1, day |-> 31],
            [year |-> 2017, month |-> 12, day |-> 15] }

VARIABLES
    today,           \* now().date() of the run
    request,         \* user -> <<>> or <<arguments of the create call that stored the row>>
    teacher,         \* user -> <<>> or <<the Teacher row of that user>>
    additional,      \* user -> set of Language pks (Teacher.additional_languages)
    userActive,      \* user -> User.is_active
    password,        \* user -> User.password, as <<prefix or algorithm, rest>>
    salaryProfiles,  \* user -> number of SalaryProfile rows
    groupRows,       \* number of Group rows named 'Helpdesk support'
    userGroups,      \* user -> member of 'Helpdesk support'
    tests,           \* user -> sequence of UserTest rows
    outbox,          \* user -> number of greeting mails sent
    freetime,        \* user -> FreeTime.available of the teacher's rows
    templates,       \* user -> FreeTimeTemplate.available of the teacher's rows
    blockCalls,      \* user -> number of calls of block() so far
    last,            \* the last call and its outcome; again: the call before it
                     \* was block() on the same teacher
    lessons,         \* SingleTeacherLesson rows of the metrics teacher
    courses,         \* StudentCourse rows
    newRows,         \* number of lesson and course rows added in the run
    cache,           \* cache key -> <<>> or <<value>>
    metric           \* the last metric read since the rows last changed

lifeVars == <<today, request, teacher, additional, userActive, password, salaryProfiles,
              groupRows, userGroups, tests, outbox, freetime, templates, blockCalls, last>>
metricVars == <<lessons, courses, newRows, cache, metric>>
vars == <<today, request, teacher, additional, userActive, password, salaryProfiles, groupRows,
          userGroups, tests, outbox, freetime, templates, blockCalls, last,
          lessons, courses, newRows, cache, metric>>

\* ------------------------------------------------------------------------
\* Helpers
\* ------------------------------------------------------------------------
Range(s) == { s[i] : i \in DOMAIN s }

Min(a, b) == IF a <= b THEN a ELSE b

SeqsUpTo(S, n) == UNION { [1..k -> S] : k \in 0..n }

\* ', '.join(names), as a sequence of tokens
RECURSIVE Join(_)
Join(names) ==
    IF Len(names) = 0 THEN <<>>
    ELSE IF Len(names) = 1 THEN <<names[1]>>
    ELSE <<names[1], ", ">> \o Join(Tail(names))

\* Language.objects.filter(code__in=codes), in pk order
RECURSIVE LanguagesWithCode(_, _)
LanguagesWithCode(codes, pk) ==
    IF pk > Len(LanguageCode) THEN <<>>
    ELSE (IF LanguageCode[pk] \in codes THEN <<pk>> ELSE <<>>)
         \o LanguagesWithCode(codes, pk + 1)

\* ------------------------------------------------------------------------
\* Dates: now().date() + relativedelta(months=1)
\* ------------------------------------------------------------------------
IsLeap(y) == (y % 4 = 0 /\ y % 100 # 0) \/ y % 400 = 0

DaysInMonth(y, m) ==
    IF m = 2 THEN (IF IsLeap(y) THEN 29 ELSE 28)
    ELSE IF m \in {4, 6, 9, 11} THEN 30 ELSE 31

relativedelta_months_1(d) ==
    LET y == IF d.month = 12 THEN d.year + 1 ELSE d.year
        m == IF d.month = 12 THEN 1 ELSE d.month + 1
    IN  [year |-> y, month |-> m, day |-> Min(d.day, DaysInMonth(y, m))]

\* ------------------------------------------------------------------------
\* Teacher: languages and position
\* ------------------------------------------------------------------------
all_languages_codes_additional_only(t, addl) ==
    { LanguageCode[l] : l \in addl }

all_languages_codes(t, addl) ==
    {LanguageCode[t.language]} \cup { LanguageCode[l] : l \in addl }

generate_position(t, addl) ==
    LET found == LanguagesWithCode(all_languages_codes(t, addl), 1)
        languages == Join([i \in DOMAIN found |-> LanguageGent[found[i]]])
    IN  <<"Prepodavatel' ">> \o languages
        \o <<" yazyk", IF ", " \in Range(languages) THEN "ov" ELSE "a">>
        \o (IF t.native THEN <<", nositel'">> ELSE <<>>)

is_active(u) == userActive[u]

ActiveManager_unfiltered == { u \in Users : teacher[u] # <<>> }

ActiveManager_get_queryset == { u \in Users : teacher[u] # <<>> /\ userActive[u] }

has_usable_password(p) == p[1] # "!"

\* ------------------------------------------------------------------------
\* Teacher.create
\* ------------------------------------------------------------------------
Stmt(op, arg) == [op |-> op, arg |-> arg]

assign_tests_single(a) ==
    <<Stmt("create_test", "webinar1")>>

\* Teacher._assign_tests: the two create_test calls
assign_tests(a) ==
    <<Stmt("create_test", "webinar1"), Stmt("create_test", "webinar2")>>

\* The statements Teacher.create runs for the arguments a, in order.
CreateStmts(a) ==
    <<Stmt("create_teacher", ""), Stmt("save_position", "")>>
    \o [i \in 1..Len(a.additional) |-> Stmt("add_language", a.additional[i])]
    \o <<Stmt("create_salary_profile", ""), Stmt("get_or_create_group", ""),
         Stmt("groups_add", "")>>
    \o (IF a.russian THEN assign_tests(a) ELSE <<>>)
    \o (IF a.send THEN <<Stmt("send_html_mail", "")>> ELSE <<>>)

Db == [request |-> request, teacher |-> teacher, additional |-> additional,
       salaryProfiles |-> salaryProfiles, groupRows |-> groupRows,
       userGroups |-> userGroups, tests |-> tests, outbox |-> outbox]

\* The statement raises on its own: a second Teacher or SalaryProfile row for
\* the same user breaks the one-to-one constraint.
Raises(db, u, s) ==
    \/ s.op = "create_teacher" /\ db.teacher[u] # <<>>
    \/ s.op = "create_salary_profile" /\ db.salaryProfiles[u] >= 1

Exec(db, u, a, s) ==
    CASE s.op = "create_teacher" ->
            [db EXCEPT !.teacher[u] = <<[language |-> a.language, russian |-> a.russian,
                                         native |-> a.native, position |-> <<>>]>>,
                       !.request[u] = <<[send |-> a.send,
                                         requested |-> Range(a.additional)]>>]
      [] s.op = "save_position" ->
            [db EXCEPT !.teacher[u] =
                <<[@[1] EXCEPT !.position =
                        generate_position(db.teacher[u][1], db.additional[u])]>>]
      [] s.op = "add_language" ->
            [db EXCEPT !.additional[u] = @ \cup {s.arg}]
      [] s.op = "create_salary_profile" ->
            [db EXCEPT !.salaryProfiles[u] = @ + 1]
      [] s.op = "get_or_create_group" ->
            [db EXCEPT !.groupRows = IF @ >= 1 THEN @ ELSE @ + 1]
      [] s.op = "groups_add" ->
            [db EXCEPT !.userGroups[u] = TRUE]
      [] s.op = "create_test" ->
            [db EXCEPT !.tests[u] =
                Append(@, [asset |-> s.arg, due |-> relativedelta_months_1(today)])]
      [] s.op = "send_html_mail" ->
            [db EXCEPT !.outbox[u] = @ + 1]

\* Runs the statements from the i-th on; failAt is the statement at which the
\* persistence or mail layer raises (0: none does). Nothing is undone.
RECURSIVE RunCreate(_, _, _, _, _, _)
RunCreate(db, u, a, stmts, i, failAt) ==
    IF i > Len(stmts) THEN [db |-> db, status |-> "ok", step |-> 0]
    ELSE IF i = failAt \/ Raises(db, u, stmts[i])
         THEN [db |-> db, status |-> "error", step |-> i]
         ELSE RunCreate(Exec(db, u, a, stmts[i]), u, a, stmts, i + 1, failAt)

Create(u, a, failAt) ==
    LET r == RunCreate(Db, u, a, CreateStmts(a), 1, failAt)
    IN  /\ request' = r.db.request
        /\ teacher' = r.db.teacher
        /\ additional' = r.db.additional
        /\ salaryProfiles' = r.db.salaryProfiles
        /\ groupRows' = r.db.groupRows
        /\ userGroups' = r.db.userGroups
        /\ tests' = r.db.tests
        /\ outbox' = r.db.outbox
        /\ last' = [op |-> "create", user |-> u, status |-> r.status, step |-> r.step,
                    again |-> FALSE, invoked |-> <<>>, errors |-> {}]
        /\ UNCHANGED <<today, userActive, password, freetime, templates, blockCalls>>
        /\ UNCHANGED metricVars

CreateArgs ==
    [language : Langs, additional : SeqsUpTo(Langs, MaxAddl), russian : BOOLEAN,
     native : BOOLEAN, send : BOOLEAN]

PlainArgs == [language |-> 1, additional |-> <<>>, russian |-> FALSE, native |-> FALSE,
              send |-> FALSE]

\* A call for a user who has a Teacher row raises at its first statement
\* whatever the arguments and stores nothing: one call stands for all of them.
DoCreate ==
    \E u \in Users :
        \E a \in (IF teacher[u] # <<>> THEN {PlainArgs} ELSE CreateArgs) :
            \E failAt \in (IF teacher[u] # <<>> THEN {0} ELSE 0..Len(CreateStmts(a))) :
                Create(u, a, failAt)

\* ------------------------------------------------------------------------
\* Teacher.block
\* ------------------------------------------------------------------------
update_available_toggle(rows) == [i \in DOMAIN rows |-> ~rows[i]]

\* queryset.update(available=False)
update_available(rows) == [i \in DOMAIN rows |-> FALSE]

\* Signal.send: the first failing receiver's exception leaves the loop.
RECURSIVE send(_, _, _)
send(receivers, failing, i) ==
    IF i > Len(receivers) THEN [invoked |-> <<>>, errors |-> {}, raised |-> FALSE]
    ELSE IF receivers[i] \in failing
         THEN [invoked |-> <<receivers[i]>>, errors |-> {}, raised |-> TRUE]
         ELSE LET rest == send(receivers, failing, i + 1)
              IN  [rest EXCEPT !.invoked = <<receivers[i]>> \o @]

\* Signal.send_robust: each receiver is called; an exception is caught and
\* returned in the responses.
RECURSIVE send_robust(_, _, _)
send_robust(receivers, failing, i) ==
    IF i > Len(receivers) THEN [invoked |-> <<>>, errors |-> {}, raised |-> FALSE]
    ELSE LET rest == send_robust(receivers, failing, i + 1)
         IN  [rest EXCEPT !.invoked = <<receivers[i]>> \o @,
                          !.errors = IF receivers[i] \in failing
                                     THEN @ \cup {receivers[i]} ELSE @]

\* user.set_unusable_password(): make_password(None)
set_unusable_password(suffix) == <<"!", suffix>>

Block(u, suffix, failing) ==
    /\ teacher[u] # <<>>
    /\ blockCalls[u] < MaxBlockCalls
    /\ templates' = [templates EXCEPT ![u] = update_available(@)]
    /\ freetime' = [freetime EXCEPT ![u] = update_available(@)]
    /\ userActive' = [userActive EXCEPT ![u] = FALSE]
    /\ password' = [password EXCEPT ![u] = set_unusable_password(suffix)]
    /\ blockCalls' = [blockCalls EXCEPT ![u] = @ + 1]
    /\ LET sent == send_robust(Receivers, failing, 1)
       IN  last' = [op |-> "block", user |-> u,
                    status |-> IF sent.raised THEN "error" ELSE "ok", step |-> 0,
                    again |-> (last.op = "block" /\ last.user = u),
                    invoked |-> sent.invoked, errors |-> sent.errors]
    /\ UNCHANGED <<today, request, teacher, additional, salaryProfiles, groupRows,
                   userGroups, tests, outbox>>
    /\ UNCHANGED metricVars

DoBlock ==
    \E u \in Users, suffix \in UnusableSuffixes, failing \in SUBSET Range(Receivers) :
        Block(u, suffix, failing)

\* ------------------------------------------------------------------------
\* Changes made through the teacher's relations
\* ------------------------------------------------------------------------
Touch(op, u) == [op |-> op, user |-> u, status |-> "ok", step |-> 0, again |-> FALSE,
                 invoked |-> <<>>, errors |-> {}]

\* teacher.additional_languages.add(lang_pk)
AddLanguage ==
    \E u \in Users, l \in Langs :
        /\ teacher[u] # <<>>
        /\ l \notin additional[u]
        /\ additional' = [additional EXCEPT ![u] = @ \cup {l}]
        /\ last' = Touch("add_language", u)
        /\ UNCHANGED <<today, request, teacher, userActive, password, salaryProfiles,
                       groupRows, userGroups, tests, outbox, freetime, templates,
                       blockCalls>>
        /\ UNCHANGED metricVars

\* teacher.additional_languages.remove(lang_pk)
RemoveLanguage ==
    \E u \in Users, l \in Langs :
        /\ teacher[u] # <<>>
        /\ l \in additional[u]
        /\ additional' = [additional EXCEPT ![u] = @ \ {l}]
        /\ last' = Touch("remove_language", u)
        /\ UNCHANGED <<today, request, teacher, userActive, password, salaryProfiles,
                       groupRows, userGroups, tests, outbox, freetime, templates,
                       blockCalls>>
        /\ UNCHANGED metricVars

\* a new row of teacher.freetime_set
AddFreeTime ==
    \E u \in Users, available \in BOOLEAN :
        /\ teacher[u] # <<>>
        /\ Len(freetime[u]) < MaxSlots
        /\ freetime' = [freetime EXCEPT ![u] = Append(@, available)]
        /\ last' = Touch("add_freetime", u)
        /\ UNCHANGED <<today, request, teacher, additional, userActive, password,
                       salaryProfiles, groupRows, userGroups, tests, outbox, templates,
                       blockCalls>>
        /\ UNCHANGED metricVars

\* a new row of teacher.freetimetemplate_set
AddFreeTimeTemplate ==
    \E u \in Users, available \in BOOLEAN :
        /\ teacher[u] # <<>>
        /\ Len(templates[u]) < MaxSlots
        /\ templates' = [templates EXCEPT ![u] = Append(@, available)]
        /\ last' = Touch("add_template", u)
        /\ UNCHANGED <<today, request, teacher, additional, userActive, password,
                       salaryProfiles, groupRows, userGroups, tests, outbox, freetime,
                       blockCalls>>
        /\ UNCHANGED metricVars

\* ------------------------------------------------------------------------
\* Metrics: lessons, courses and the cached properties
\* ------------------------------------------------------------------------
CacheKeys == {"FINISHED_DEMO", "PAID_AFTER_DEMO"}

\* Teacher._finished_demo_lessons
finished_demo_filter(ls) ==
    SelectSeq(ls, LAMBDA l : (l.code = "DEMO" \/ l.code = "NATIVE-DEMO") /\ l.finished)

\* the StudentCourse query of paid_after_demo for one lesson
paid_course_exists(cs, lesson) ==
    \E c \in cs : /\ c.student = lesson.student
                  /\ ~(c.created < lesson.start)
                  /\ c.code # "DEMO"
                  /\ c.code # "NATIVE-DEMO"

\* the loop of paid_after_demo over the finished demo lessons
RECURSIVE paid_after_demo_loop(_, _, _, _)
paid_after_demo_loop(demo_lessons, cs, i, students_pay) ==
    IF i > Len(demo_lessons) THEN students_pay
    ELSE paid_after_demo_loop(demo_lessons, cs, i + 1,
            IF paid_course_exists(cs, demo_lessons[i])
            THEN students_pay + 1 ELSE students_pay)

finished_demo_lessons_count(ls) == Len(finished_demo_filter(ls))

paid_after_demo_count(ls, cs) == paid_after_demo_loop(finished_demo_filter(ls), cs, 1, 0)

\* @cached(key, timeout): the stored value while the entry lives, else the
\* computed value, which is stored
cached(c, key, value) ==
    IF c[key] # <<>>
    THEN [value |-> c[key][1], cache |-> c, computed |-> FALSE]
    ELSE [value |-> value, cache |-> [c EXCEPT ![key] = <<value>>], computed |-> TRUE]

\* round(p / f, 2), in hundredths. p / f is a tie between two hundredths only
\* for f >= 16, where the quotient is a binary fraction and round() takes the
\* even neighbour.
round2(p, f) ==
    LET q == (100 * p) \div f
        r == (100 * p) % f
    IN  IF 2 * r < f THEN q
        ELSE IF 2 * r > f THEN q + 1
        ELSE IF q % 2 = 0 THEN q ELSE q + 1

conversion_le(c, ls, cs) ==
    LET students_demo == cached(c, "FINISHED_DEMO", finished_demo_lessons_count(ls))
    IN  IF students_demo.value <= DEMOS_MIN
        THEN [result |-> 100, fin |-> students_demo.value, paid |-> 0,
              paidRead |-> FALSE, cache |-> students_demo.cache]
        ELSE LET paid == cached(students_demo.cache, "PAID_AFTER_DEMO",
                                paid_after_demo_count(ls, cs))
             IN  [result |-> round2(paid.value, students_demo.value),
                  fin |-> students_demo.value, paid |-> paid.value,
                  paidRead |-> TRUE, cache |-> paid.cache]

\* Teacher.conversion; the result in hundredths
conversion(c, ls, cs) ==
    LET students_demo == cached(c, "FINISHED_DEMO", finished_demo_lessons_count(ls))
    IN  IF students_demo.value < DEMOS_MIN
        THEN [result |-> 100, fin |-> students_demo.value, paid |-> 0,
              paidRead |-> FALSE, cache |-> students_demo.cache]
        ELSE LET paid == cached(students_demo.cache, "PAID_AFTER_DEMO",
                                paid_after_demo_count(ls, cs))
             IN  [result |-> round2(paid.value, students_demo.value),
                  fin |-> students_demo.value, paid |-> paid.value,
                  paidRead |-> TRUE, cache |-> paid.cache]

InputStudents == {1, 11}
InputTimes == {1, 3}
LessonInputs ==
    { l \in [student : InputStudents, start : InputTimes,
             code : {"DEMO", "NATIVE-DEMO", "GENERAL"}, finished : BOOLEAN] :
        l.finished \/ l.code = "DEMO" }
CourseInputs ==
    [student : InputStudents, created : InputTimes,
     code : {"DEMO", "NATIVE-DEMO", "GENERAL"}]

\* Databases the run starts from: students 1..k had one finished DEMO lesson
\* each with the teacher at time 2, and students 1..m among them bought a
\* GENERAL course at time 2.
Seeds == { <<9, 9>>, <<10, 3>>, <<10, 10>> }
SeedLessons(k) ==
    [i \in 1..k |-> [student |-> i, start |-> 2, code |-> "DEMO", finished |-> TRUE]]
SeedCourses(m) == { [student |-> i, created |-> 2, code |-> "GENERAL"] : i \in 1..m }

NoMetric == [op |-> "none", fin |-> 0, paid |-> 0, result |-> 0, computed |-> FALSE,
             paidRead |-> FALSE]

\* a new SingleTeacherLesson row of the teacher
AddLesson ==
    \E l \in LessonInputs :
        /\ newRows < MaxNewRows
        /\ lessons' = Append(lessons, l)
        /\ newRows' = newRows + 1
        /\ metric' = NoMetric
        /\ UNCHANGED <<courses, cache>>
        /\ UNCHANGED lifeVars

\* a new StudentCourse row
AddCourse ==
    \E c \in CourseInputs :
        /\ newRows < MaxNewRows
        /\ c \notin courses
        /\ courses' = courses \cup {c}
        /\ newRows' = newRows + 1
        /\ metric' = NoMetric
        /\ UNCHANGED <<lessons, cache>>
        /\ UNCHANGED lifeVars

\* teacher.finished_demo_lessons
ReadFinished ==
    LET r == cached(cache, "FINISHED_DEMO", finished_demo_lessons_count(lessons))
    IN  /\ cache' = r.cache
        /\ metric' = [op |-> "finished_demo_lessons", fin |-> r.value, paid |-> 0,
                      result |-> r.value, computed |-> r.computed, paidRead |-> FALSE]
        /\ UNCHANGED <<lessons, courses, newRows>>
        /\ UNCHANGED lifeVars

\* teacher.paid_after_demo
ReadPaid ==
    LET r == cached(cache, "PAID_AFTER_DEMO", paid_after_demo_count(lessons, courses))
    IN  /\ cache' = r.cache
        /\ metric' = [op |-> "paid_after_demo", fin |-> 0, paid |-> r.value,
                      result |-> r.value, computed |-> r.computed, paidRead |-> TRUE]
        /\ UNCHANGED <<lessons, courses, newRows>>
        /\ UNCHANGED lifeVars

\* teacher.conversion
ReadConversion ==
    LET r == conversion(cache, lessons, courses)
    IN  /\ cache' = r.cache
        /\ metric' = [op |-> "conversion", fin |-> r.fin, paid |-> r.paid,
                      result |-> r.result, computed |-> FALSE, paidRead |-> r.paidRead]
        /\ UNCHANGED <<lessons, courses, newRows>>
        /\ UNCHANGED lifeVars

\* the timeout of a cache entry passes
Expire ==
    \E key \in CacheKeys :
        /\ cache[key] # <<>>
        /\ cache' = [cache EXCEPT ![key] = <<>>]
        /\ UNCHANGED <<lessons, courses, newRows, metric>>
        /\ UNCHANGED lifeVars

\* ------------------------------------------------------------------------
\* Specifications
\* ------------------------------------------------------------------------
FirstUser == CHOOSE u \in Users : TRUE

EmptyDb ==
    [request |-> [u \in Users |-> <<>>], teacher |-> [u \in Users |-> <<>>],
     additional |-> [u \in Users |-> {}], salaryProfiles |-> [u \in Users |-> 0],
     groupRows |-> 0, userGroups |-> [u \in Users |-> FALSE],
     tests |-> [u \in Users |-> <<>>], outbox |-> [u \in Users |-> 0]]

OnboardedArgs ==
    { PlainArgs,
      [language |-> 2, additional |-> <<1>>, russian |-> TRUE, native |-> TRUE,
       send |-> TRUE] }

InitAccount ==
    /\ userActive = [u \in Users |-> TRUE]
    /\ password = [u \in Users |-> InitialPassword]
    /\ freetime = [u \in Users |-> <<>>]
    /\ templates = [u \in Users |-> <<>>]
    /\ blockCalls = [u \in Users |-> 0]
    /\ last = Touch("none", FirstUser)

\* No teacher yet; the user may have a salary profile and the group may exist.
InitFresh ==
    /\ today \in Todays
    /\ request = EmptyDb.request
    /\ teacher = EmptyDb.teacher
    /\ additional = EmptyDb.additional
    /\ salaryProfiles \in [Users -> {0, 1}]
    /\ groupRows \in {0, 1}
    /\ userGroups = EmptyDb.userGroups
    /\ tests = EmptyDb.tests
    /\ outbox = EmptyDb.outbox
    /\ InitAccount

\* The state after Teacher.create has returned for a fresh user, called on
\* one of the days with one of the arguments.
InitOnboarded(days, args) ==
    /\ today \in days
    /\ \E a \in args :
          LET db == RunCreate(EmptyDb, FirstUser, a, CreateStmts(a), 1, 0).db
          IN  /\ request = db.request
              /\ teacher = db.teacher
              /\ additional = db.additional
              /\ salaryProfiles = db.salaryProfiles
              /\ groupRows = db.groupRows
              /\ userGroups = db.userGroups
              /\ tests = db.tests
              /\ outbox = db.outbox
    /\ InitAccount

InitLessons(seed) ==
    /\ lessons = SeedLessons(seed[1])
    /\ courses = SeedCourses(seed[2])
    /\ newRows = 0
    /\ cache = [k \in CacheKeys |-> <<>>]
    /\ metric = NoMetric

InitOnboarding == InitFresh /\ InitLessons(<<0, 0>>)

NextOnboarding ==
    \/ DoCreate
    \/ AddLanguage
    \/ RemoveLanguage

SpecOnboarding == InitOnboarding /\ [][NextOnboarding]_vars

InitBlocking == InitOnboarded(Todays, OnboardedArgs) /\ InitLessons(<<0, 0>>)

NextBlocking ==
    \/ DoBlock
    \/ DoCreate
    \/ AddFreeTime
    \/ AddFreeTimeTemplate

SpecBlocking == InitBlocking /\ [][NextBlocking]_vars

InitMetrics ==
    /\ InitOnboarded({CHOOSE d \in Todays : d.day = 31}, {PlainArgs})
    /\ \E seed \in Seeds : InitLessons(seed)

NextMetrics ==
    \/ AddLesson
    \/ AddCourse
    \/ ReadFinished
    \/ ReadPaid
    \/ ReadConversion
    \/ Expire

SpecMetrics == InitMetrics /\ [][NextMetrics]_vars

\* ------------------------------------------------------------------------
\* Claims
\* ------------------------------------------------------------------------
AllFalse(rows) == \A i \in DOMAIN rows : ~rows[i]

\* The records create() is to store with the Teacher row of u.
HasDependentRecords(u) ==
    /\ salaryProfiles[u] >= 1
    /\ userGroups[u]
    /\ request[u][1].requested \subseteq additional[u]
    /\ teacher[u][1].russian => Len(tests[u]) = 2

\* C1: when a statement of Teacher.create after the first raises, the call
\* ends with the error and no Teacher row of that user stays stored without
\* its salary profile, group membership, additional languages and (for a
\* russian teacher) tests.
C1_CreateAllOrNothing ==
    (last.op = "create" /\ last.status = "error" /\ last.step > 1)
        => (teacher[last.user] = <<>> \/ HasDependentRecords(last.user))

\* What block() reaches: the availability rows, the user's is_active and
\* whether the password is usable.
BlockedState(u) ==
    <<freetime[u], templates[u], userActive[u], has_usable_password(password[u])>>

\* C2: a call of block() right after a call of block() on the same teacher
\* changes nothing, and leaves every free-time and template row unavailable
\* and the user inactive.
C2_BlockIdempotent ==
    [][ \A u \in Users :
            (last'.op = "block" /\ last'.again /\ last'.user = u)
                => /\ BlockedState(u)' = BlockedState(u)
                   /\ AllFalse(freetime'[u])
                   /\ AllFalse(templates'[u])
                   /\ ~userActive'[u] ]_vars

C2_Witness ==
    /\ last.op = "block"
    /\ last.again
    /\ Len(freetime[last.user]) > 0
    /\ Len(templates[last.user]) > 0

\* C3: conversion is 1.0 when the finished_demo_lessons value it reads is
\* below DEMOS_MIN, without reading paid_after_demo; otherwise it is the
\* hundredth nearest to paid_after_demo / finished_demo_lessons; 10 finished
\* demos and 3 paid give 0.3.
C3_Conversion ==
    metric.op = "conversion" =>
        /\ metric.fin < 10 => (metric.result = 100 /\ ~metric.paidRead)
        /\ metric.fin >= 10 =>
              /\ metric.paidRead
              /\ 2 * (100 * metric.paid - metric.result * metric.fin) <= metric.fin
              /\ 2 * (metric.result * metric.fin - 100 * metric.paid) <= metric.fin
        /\ (metric.fin = 10 /\ metric.paid = 3) => metric.result = 30

C3_Witness ==
    /\ metric.op = "conversion"
    /\ metric.fin = 10
    /\ metric.paid = 3
    /\ metric.result = 30

\* C4: whichever receivers of teacher_blocked fail, block() returns without
\* an error, has called every receiver, and leaves every availability row
\* unavailable, the user inactive and the password unusable.
C4_ListenersIsolated ==
    last.op = "block" =>
        /\ last.status = "ok"
        /\ last.invoked = Receivers
        /\ AllFalse(freetime[last.user])
        /\ AllFalse(templates[last.user])
        /\ ~userActive[last.user]
        /\ ~has_usable_password(password[last.user])

C4_Witness ==
    /\ last.op = "block"
    /\ last.errors = Range(Receivers)
    /\ Len(freetime[last.user]) > 0

\* due is the day one calendar month after d
OneMonthAfter(d, due) ==
    /\ 12 * due.year + due.month = 12 * d.year + d.month + 1
    /\ due.day <= d.day
    /\ due.day = d.day \/ due.day = DaysInMonth(due.year, due.month)

\* C5: after Teacher.create has succeeded, the user has exactly one salary
\* profile and is in the one 'Helpdesk support' group; a russian teacher has
\* exactly the tests webinar1 and webinar2, both due one calendar month from
\* today, and any other teacher none; one greeting mail went out if
\* __send_greeting_email was true and none if it was false.
C5_CreateOutcome ==
    (last.op = "create" /\ last.status = "ok") =>
        LET u == last.user IN
        /\ salaryProfiles[u] = 1
        /\ userGroups[u]
        /\ groupRows = 1
        /\ IF teacher[u][1].russian
           THEN /\ Len(tests[u]) = 2
                /\ tests[u][1].asset = "webinar1"
                /\ tests[u][2].asset = "webinar2"
                /\ tests[u][1].due = tests[u][2].due
                /\ OneMonthAfter(today, tests[u][1].due)
           ELSE tests[u] = <<>>
        /\ outbox[u] = IF request[u][1].send THEN 1 ELSE 0

C5_Witness ==
    /\ last.op = "create"
    /\ last.status = "ok"
    /\ teacher[last.user][1].russian
    /\ request[last.user][1].send
    /\ today.day = 31
    /\ Len(tests[last.user]) = 2
    /\ outbox[last.user] = 1

\* The students with a finished demo lesson with the teacher and a non-demo
\* course created not earlier than that lesson's start.
StudentsPaidAfterDemo ==
    { l.student : l \in
        { x \in Range(lessons) :
            /\ x.code \in {"DEMO", "NATIVE-DEMO"}
            /\ x.finished
            /\ \E c \in courses : /\ c.student = x.student
                                  /\ c.code \notin {"DEMO", "NATIVE-DEMO"}
                                  /\ c.created >= x.start } }

\* C6: paid_after_demo, when computed, is the number of students who had a
\* finished demo lesson with the teacher and have a non-demo course created
\* not earlier than that lesson's start, each student counted once.
C6_PaidCountsStudents ==
    (metric.op = "paid_after_demo" /\ metric.computed)
        => metric.result = Cardinality(StudentsPaidAfterDemo)

\* C7: all_languages_codes of every teacher is non-empty, contains the code
\* of the primary language, and holds exactly the codes of the primary and
\* of the additional languages.
C7_AllLanguagesCodes ==
    \A u \in Users :
        teacher[u] # <<>> =>
            LET codes == all_languages_codes(teacher[u][1], additional[u]) IN
            /\ codes # {}
            /\ LanguageCode[teacher[u][1].language] \in codes
            /\ \A l \in Langs :
                  LanguageCode[l] \in codes
                      <=> (l = teacher[u][1].language \/ l \in additional[u])
            /\ codes \subseteq Range(LanguageCode)

C7_Witness ==
    /\ last.op = "remove_language"
    /\ teacher[last.user] # <<>>
    /\ Cardinality(all_languages_codes(teacher[last.user][1],
                                       additional[last.user])) = 2

\* C8: a teacher is active exactly when the user is, and is among the
\* 'active' manager's teachers exactly then; once block() has been called,
\* the teacher is inactive, has no usable password and is not among the
\* 'active' manager's teachers, whatever is called afterwards.
C8_BlockedForGood ==
    \A u \in Users :
        teacher[u] # <<>> =>
            /\ is_active(u) <=> userActive[u]
            /\ u \in ActiveManager_get_queryset <=> is_active(u)
            /\ blockCalls[u] >= 1 =>
                  /\ ~is_active(u)
                  /\ ~has_usable_password(password[u])
                  /\ u \notin ActiveManager_get_queryset

C8_Witness ==
    /\ last.op = "create"
    /\ blockCalls[last.user] >= 1
    /\ ~is_active(last.user)

\* C9: after Teacher.create has succeeded, the stored position is what
\* generate_position() returns on the created teacher, so it names every
\* assigned language, primary and additional.
C9_PositionFromAllLanguages ==
    (last.op = "create" /\ last.status = "ok") =>
        teacher[last.user][1].position
            = generate_position(teacher[last.user][1], additional[last.user])

\* C10: conversion returns a value from 0 to 1, and the paid_after_demo value
\* it uses never exceeds the finished_demo_lessons value it uses.
C10_ConversionAtMostOne ==
    metric.op = "conversion" =>
        /\ 0 <= metric.result
        /\ metric.result <= 100
        /\ metric.paidRead => metric.paid <= metric.fin

====
